---- MODULE Spec2Model ----
(***************************************************************************)
(* sapcli: parameter builders for the SAP user-management BAPIs            *)
(* (sap/rfc/user.py) and the BAPI return-table error check                 *)
(* (sap/rfc/bapi.py).                                                      *)
(*                                                                         *)
(* Python values are modelled as follows.  Strings are strings.  None is   *)
(* the marker None.  A dict is a function from its keys to its values; a   *)
(* dict that the builder keeps a reference to lives in `heap` and is       *)
(* named by a reference ("@address", ...), so that two names for the same  *)
(* dict object see each other's writes.  A list is a sequence.  An         *)
(* operation's result is the raised exception's class name in `exc`        *)
(* ("ok" when it returned) and the returned value in `ret`.                *)
(***************************************************************************)
EXTENDS Integers, Sequences, FiniteSets, TLC

VARIABLES
    user_builder,      \* UserBuilder: _username, _address, _logondata, _password, _alias
    heap,              \* the dict objects the UserBuilder created, by reference
    roles_builder,     \* UserRoleAssignmentBuilder: _user, _roles
    profiles_builder,  \* UserProfileAssignmentBuilder: _user, _profiles
    day,               \* the local clock: days elapsed since FirstDate
    op,                \* the operation called last
    arg,               \* its argument
    exc,               \* "ok", or the class of the exception it raised
    ret,               \* the value it returned (None when it raised)
    calls,             \* the remote functions conn.call was invoked with by the last Manager operation
    given,             \* history: the last str handed to each UserBuilder setter, by the key it is for
    given_roles,       \* history: the last list handed to add_roles
    snap,              \* history: the dicts reachable from the last built user bag, as they were at return
    ncalls             \* the number of operations called so far

vars == <<user_builder, heap, roles_builder, profiles_builder, day, op, arg, exc, ret,
          calls, given, given_roles, snap, ncalls>>

---------------------------------------------------------------------------
(* Bounds *)

\* the clock runs from day 0 to day MaxDay
MaxDay == 2
\* longest list of role / profile names handed to a builder
MaxNames == 2
\* longest RETURN table of a response
MaxRows == 2
\* longest RETURN table the connection answers a Manager operation with
MaxReturn == 1
\* operations called in one run
MaxCalls == 4

---------------------------------------------------------------------------
(* Python values *)

None == "None"

EmptyDict == [k \in {} |-> None]

\* target_dict[target_key] = value
DictSet(d, k, v) == [x \in (DOMAIN d) \cup {k} |-> IF x = k THEN v ELSE d[x]]

\* isinstance(v, str), for the values handed to the date setters
IsStr(v) == v # None

\* all sequences over S of length at most n
RECURSIVE SeqsUpTo(_, _)
SeqsUpTo(S, n) ==
    IF n = 0 THEN {<<>>}
    ELSE LET shorter == SeqsUpTo(S, n - 1)
         IN  shorter \cup {Append(s, x) : s \in {t \in shorter : Len(t) = n - 1}, x \in S}

---------------------------------------------------------------------------
(* Dates: datetime.date.today() and strftime('%Y%m%d') *)

FirstDate == [year |-> 2026, month |-> 12, day |-> 30]

DaysInMonth(y, m) ==
    IF m = 2 THEN (IF (y % 4 = 0 /\ y % 100 # 0) \/ y % 400 = 0 THEN 29 ELSE 28)
    ELSE IF m \in {4, 6, 9, 11} THEN 30 ELSE 31

NextDate(d) ==
    IF d.day < DaysInMonth(d.year, d.month) THEN [d EXCEPT !.day = d.day + 1]
    ELSE IF d.month < 12 THEN [d EXCEPT !.month = d.month + 1, !.day = 1]
    ELSE [year |-> d.year + 1, month |-> 1, day |-> 1]

RECURSIVE DateOfDay(_)
DateOfDay(n) == IF n = 0 THEN FirstDate ELSE NextDate(DateOfDay(n - 1))

Digit(n) == CASE n = 0 -> "0" [] n = 1 -> "1" [] n = 2 -> "2" [] n = 3 -> "3" [] n = 4 -> "4"
              [] n = 5 -> "5" [] n = 6 -> "6" [] n = 7 -> "7" [] n = 8 -> "8" [] n = 9 -> "9"

\* the decimal digits of n, zero-padded to width w
RECURSIVE ZeroPad(_, _)
ZeroPad(n, w) == IF w = 0 THEN "" ELSE ZeroPad(n \div 10, w - 1) \o Digit(n % 10)

sap_date_from(the_date) ==
    ZeroPad(the_date.year, 4) \o ZeroPad(the_date.month, 2) \o ZeroPad(the_date.day, 2)

today_sap_date == sap_date_from(DateOfDay(day))

---------------------------------------------------------------------------
(* Dictionary helpers.  Both return a bool the callers drop; the operator  *)
(* is the dict after the call.                                             *)

add_to_dict_if_not_none(target_dict, target_key, value) ==
    IF value = None THEN target_dict ELSE DictSet(target_dict, target_key, value)

add_to_dict_if_not_present(target_dict, target_key, value) ==
    IF target_key \in DOMAIN target_dict THEN target_dict
    ELSE DictSet(target_dict, target_key, value)

---------------------------------------------------------------------------
(* Results of an operation *)

Called(name, a) == ncalls < MaxCalls /\ ncalls' = ncalls + 1 /\ op' = name /\ arg' = a

Returned(name, a, value) == Called(name, a) /\ exc' = "ok" /\ ret' = value

Raised(name, a, error) == Called(name, a) /\ exc' = error /\ ret' = None

---------------------------------------------------------------------------
(* UserBuilder *)

Self == "@user_builder"

UserBuilderRefs == {"@address", "@password", "@alias", "@logondata"}

\* UserBuilder()
UserBuilder_init ==
    [_username |-> None, _address |-> None, _logondata |-> None,
     _password |-> None, _alias |-> None]

\* A property that creates the field's dict on first use and returns it:
\* the builder and the heap after the read, and the reference read.
LazyDict(field, ref) ==
    IF user_builder[field] = None
    THEN [b |-> [user_builder EXCEPT ![field] = ref],
          h |-> [heap EXCEPT ![ref] = EmptyDict],
          ref |-> ref]
    ELSE [b |-> user_builder, h |-> heap, ref |-> user_builder[field]]

_address_data == LazyDict("_address", "@address")

_password_data == LazyDict("_password", "@password")

_alias_data == LazyDict("_alias", "@alias")

_logondata_data == LazyDict("_logondata", "@logondata")

\* prop[key] = value, where prop is the result of reading one of the properties
StoreVia(prop, key, value) ==
    /\ user_builder' = prop.b
    /\ heap' = [prop.h EXCEPT ![prop.ref] = DictSet(@, key, value)]
    /\ given' = [given EXCEPT ![key] = value]

Usernames == {"FOO", "BAR"}
FirstNames == {"First", "Primo"}
LastNames == {"Last"}
EmailAddresses == {"email@example.org"}
Passwords == {"Password"}
Aliases == {"HTTP_ALIAS"}
UserTypes == {"S"}
\* the date setters are also handed a value that is not a str
DateArgs == {"20200101", "20201231", None}

BuilderFrame == UNCHANGED <<roles_builder, profiles_builder, day, calls, given_roles, snap>>

set_username ==
    \E username \in Usernames :
        /\ user_builder' = [user_builder EXCEPT !._username = username]
        /\ given' = [given EXCEPT !["USERNAME"] = username]
        /\ Returned("set_username", username, Self)
        /\ UNCHANGED heap
        /\ BuilderFrame

set_first_name ==
    \E first_name \in FirstNames :
        /\ StoreVia(_address_data, "FIRSTNAME", first_name)
        /\ Returned("set_first_name", first_name, Self)
        /\ BuilderFrame

set_last_name ==
    \E last_name \in LastNames :
        /\ StoreVia(_address_data, "LASTNAME", last_name)
        /\ Returned("set_last_name", last_name, Self)
        /\ BuilderFrame

\* writes through the field self._address itself, not through the property
set_email_address ==
    \E email_address \in EmailAddresses :
        /\ IF user_builder._address = None
           THEN /\ Raised("set_email_address", email_address, "TypeError")
                /\ given' = [given EXCEPT !["E_MAIL"] = email_address]
                /\ UNCHANGED <<user_builder, heap>>
           ELSE /\ heap' = [heap EXCEPT ![user_builder._address] =
                                DictSet(@, "E_MAIL", email_address)]
                /\ given' = [given EXCEPT !["E_MAIL"] = email_address]
                /\ Returned("set_email_address", email_address, Self)
                /\ UNCHANGED user_builder
        /\ BuilderFrame

set_password ==
    \E password \in Passwords :
        /\ StoreVia(_password_data, "BAPIPWD", password)
        /\ Returned("set_password", password, Self)
        /\ BuilderFrame

set_alias ==
    \E alias \in Aliases :
        /\ StoreVia(_alias_data, "USERALIAS", alias)
        /\ Returned("set_alias", alias, Self)
        /\ BuilderFrame

set_type ==
    \E typ \in UserTypes :
        /\ StoreVia(_logondata_data, "USTYP", typ)
        /\ Returned("set_type", typ, Self)
        /\ BuilderFrame

set_valid_from ==
    \E start_date \in DateArgs :
        /\ IF IsStr(start_date)
           THEN /\ StoreVia(_logondata_data, "GLTGV", start_date)
                /\ Returned("set_valid_from", start_date, Self)
           ELSE /\ Raised("set_valid_from", start_date, "ValueError")
                /\ UNCHANGED <<user_builder, heap, given>>
        /\ BuilderFrame

set_valid_to ==
    \E end_date \in DateArgs :
        /\ IF IsStr(end_date)
           THEN /\ StoreVia(_logondata_data, "GLTGB", end_date)
                /\ Returned("set_valid_to", end_date, Self)
           ELSE /\ Raised("set_valid_to", end_date, "ValueError")
                /\ UNCHANGED <<user_builder, heap, given>>
        /\ BuilderFrame

\* UserBuilder.build_rfc_params: the builder and the heap after the call,
\* and the returned dict.  Nested dicts are stored by reference.
UserBuilder_build_rfc_params ==
    LET p1 == add_to_dict_if_not_none(EmptyDict, "USERNAME", user_builder._username)
        p2 == add_to_dict_if_not_none(p1, "ADDRESS", user_builder._address)
        p3 == add_to_dict_if_not_none(p2, "PASSWORD", user_builder._password)
        p4 == add_to_dict_if_not_none(p3, "ALIAS", user_builder._alias)
        ld == _logondata_data
        d1 == add_to_dict_if_not_present(ld.h[ld.ref], "GLTGV", today_sap_date)
        d2 == add_to_dict_if_not_present(d1, "GLTGB", "20991231")
    IN  [b |-> ld.b,
         h |-> [ld.h EXCEPT ![ld.ref] = d2],
         params |-> add_to_dict_if_not_none(p4, "LOGONDATA", ld.b._logondata)]

\* the references a bag holds
RefsOf(params) == {params[k] : k \in DOMAIN params} \cap UserBuilderRefs

build_rfc_params ==
    LET built == UserBuilder_build_rfc_params
    IN  /\ user_builder' = built.b
        /\ heap' = built.h
        /\ Returned("build_rfc_params", None, built.params)
        /\ snap' = [built |-> TRUE,
                    bag |-> built.params,
                    heap |-> [r \in RefsOf(built.params) |-> built.h[r]]]
        /\ UNCHANGED <<roles_builder, profiles_builder, day, calls, given, given_roles>>

---------------------------------------------------------------------------
(* Name resolution: a bare name in a function body is a local of that      *)
(* function, or a global of its module, or else a NameError.                *)

\* the names sap/rfc/user.py binds at module level
user_globals ==
    {"datetime", "Dict", "Union", "List", "RFCParams", "BAPIError", "UserId", "UserAddress",
     "add_to_dict_if_not_none", "add_to_dict_if_not_present", "sap_date_from",
     "today_sap_date", "UserBuilder", "UserRoleAssignmentBuilder",
     "UserProfileAssignmentBuilder", "UserManager"}

IsBound(name, locals) == name \in locals \cup user_globals

---------------------------------------------------------------------------
(* UserRoleAssignmentBuilder and UserProfileAssignmentBuilder *)

\* None, where the value is otherwise a dict
NoParams == [None |-> TRUE]

RoleNames == {"1", "2"}
ProfileNames == {"1", "2"}

AssignFrame == UNCHANGED <<user_builder, heap, day, calls, given, snap>>

\* UserRoleAssignmentBuilder(user)
UserRoleAssignmentBuilder_init(user) == [_user |-> user, _roles |-> <<>>]

\* the users the assignment builders are constructed for
BoundUsers == {"LOGON", "FOO"}

\* add_roles as it would be if it extended the list instead of replacing it
add_roles_extending(role_names) == roles_builder._roles \o role_names

\* the list the builder holds after add_roles(role_names)
UserRoleAssignmentBuilder_add_roles(role_names) == role_names

add_roles ==
    \E role_names \in SeqsUpTo(RoleNames, MaxNames) :
        /\ roles_builder' =
               [roles_builder EXCEPT !._roles = UserRoleAssignmentBuilder_add_roles(role_names)]
        /\ given_roles' = role_names
        /\ Returned("add_roles", role_names, "@roles_builder")
        /\ UNCHANGED profiles_builder
        /\ AssignFrame

UserRoleAssignmentBuilder_build_rfc_params ==
    IF roles_builder._roles = <<>> THEN NoParams
    ELSE LET table_row(role_name) ==
                 add_to_dict_if_not_present(
                     add_to_dict_if_not_present(
                         DictSet(EmptyDict, "AGR_NAME", role_name),
                         "FROM_DAT", today_sap_date),
                     "TO_DAT", "20991231")
             rfc_table == [i \in 1..Len(roles_builder._roles) |->
                               table_row(roles_builder._roles[i])]
         IN  [USERNAME |-> roles_builder._user, ACTIVITYGROUPS |-> rfc_table]

roles_build_rfc_params ==
    /\ Returned("roles.build_rfc_params", None, UserRoleAssignmentBuilder_build_rfc_params)
    /\ UNCHANGED <<roles_builder, profiles_builder, given_roles>>
    /\ AssignFrame

\* the body assigns the name `profiles`, which is neither a local nor a global
add_profiles ==
    \E profile_names \in SeqsUpTo(ProfileNames, MaxNames) :
        /\ IF IsBound("profiles", {"self", "profile_names"})
           THEN /\ profiles_builder' = [profiles_builder EXCEPT !._profiles = profile_names]
                /\ Returned("add_profiles", profile_names, "@profiles_builder")
           ELSE /\ Raised("add_profiles", profile_names, "NameError")
                /\ UNCHANGED profiles_builder
        /\ UNCHANGED <<roles_builder, given_roles>>
        /\ AssignFrame

\* UserProfileAssignmentBuilder(user)
UserProfileAssignmentBuilder_init(user) == [_user |-> user, _profiles |-> <<>>]

UserProfileAssignmentBuilder_build_rfc_params ==
    IF profiles_builder._profiles = <<>> THEN NoParams
    ELSE LET rfc_table == [i \in 1..Len(profiles_builder._profiles) |->
                               DictSet(EmptyDict, "BAPIPROF", profiles_builder._profiles[i])]
         IN  [USERNAME |-> profiles_builder._user, PROFILES |-> rfc_table]

profiles_build_rfc_params ==
    /\ Returned("profiles.build_rfc_params", None, UserProfileAssignmentBuilder_build_rfc_params)
    /\ UNCHANGED <<roles_builder, profiles_builder, given_roles>>
    /\ AssignFrame

---------------------------------------------------------------------------
(* BAPIError (sap/rfc/bapi.py) *)

RowTypes == {"E", "S"}
RowMessages == {"Error message", "Done"}
ReturnRows == [TYPE : RowTypes, MESSAGE : RowMessages]

\* A RETURN value is a list of rows or one row; is_list is isinstance(value, list).
\* The responses whose RETURN is a list, and those whose RETURN is one row:
ListReturns(n) == {[is_list |-> TRUE, value |-> t] : t \in SeqsUpTo(ReturnRows, n)}

RowReturns == {[is_list |-> FALSE, value |-> r] : r \in ReturnRows}

\* what the connection answers: responses whose RETURN is a list, and whose RETURN is one row
ListResponses == {[RETURN |-> b] : b \in ListReturns(MaxReturn)}

RowResponses == {[RETURN |-> b] : b \in RowReturns}

\* '\n'.join([' '.join([bapiret['TYPE'], bapiret['MESSAGE']]) for bapiret in bapirettab])
RECURSIVE JoinRows(_)
JoinRows(bapirettab) ==
    IF bapirettab = <<>> THEN ""
    ELSE LET line == bapirettab[1].TYPE \o " " \o bapirettab[1].MESSAGE
         IN  IF Len(bapirettab) = 1 THEN line
             ELSE line \o "\n" \o JoinRows(Tail(bapirettab))

\* BAPIError(*args): __init__(self, message, bapirettab, response) takes three arguments
BAPIError_init(args) ==
    IF Len(args) # 3 THEN [exc |-> "TypeError"]
    ELSE [exc |-> "BAPIError",
          message |-> JoinRows(args[2]),
          bapirettab |-> args[2],
          response |-> args[3]]

\* BAPIError.raise_for_error(*args): raise_for_error(bapiret, response) takes two
\* arguments.  The result is [exc |-> "ok"] or the exception raised.
raise_for_error(args) ==
    IF Len(args) # 2 THEN [exc |-> "TypeError"]
    ELSE LET bapiret == IF args[1].is_list THEN args[1].value ELSE <<args[1].value>>
             response == args[2]
         IN  IF bapiret # <<>> /\ \E i \in 1..Len(bapiret) : bapiret[i].TYPE = "E"
             THEN BAPIError_init(<<bapiret, response>>)
             ELSE [exc |-> "ok"]

raise_for_error_called(bapiret, response) ==
        LET result == raise_for_error(<<bapiret, response>>)
        IN  /\ Called("raise_for_error", [bapiret |-> bapiret, response |-> response])
            /\ exc' = result.exc
            /\ ret' = IF result.exc = "BAPIError" THEN result ELSE None
            /\ UNCHANGED <<user_builder, heap, roles_builder, profiles_builder, day, calls,
                           given, given_roles, snap>>

call_raise_for_error ==
    \E response \in ListResponses :
        \/ \E bapiret \in ListReturns(MaxRows) : raise_for_error_called(bapiret, response)
        \/ \E bapiret \in RowReturns : raise_for_error_called(bapiret, response)

---------------------------------------------------------------------------
(* UserManager.  `calls` lists the function names handed to conn.call by   *)
(* the operation called last; `response` is what the connection answers.   *)

\* resp = conn.call(function, **rfc_call_params); BAPIError.raise_for_error(resp['RETURN'])
\* The result is [exc, calls], exc being "ok" when both statements complete.
CallAndCheck(function, locals, rfc_call_params, response) ==
    IF ~IsBound("conn", locals) THEN [exc |-> "NameError", calls |-> <<>>]
    ELSE IF rfc_call_params = NoParams THEN [exc |-> "TypeError", calls |-> <<>>]
    ELSE [exc |-> raise_for_error(<<response.RETURN>>).exc, calls |-> <<function>>]

create_user_answered(response) ==
        LET built == UserBuilder_build_rfc_params
            done == CallAndCheck("BAPI_USER_CREATE1",
                                 {"self", "user_builder", "rfc_call_params", "resp"},
                                 built.params, response)
        IN  /\ user_builder' = built.b
            /\ heap' = built.h
            /\ calls' = done.calls
            /\ IF done.exc # "ok" THEN Raised("create_user", response, done.exc)
               ELSE IF "USERNAME" \notin DOMAIN built.params
                    THEN Raised("create_user", response, "KeyError")
                    ELSE Returned("create_user", response, built.params["USERNAME"])
            /\ UNCHANGED <<roles_builder, profiles_builder, day, given, given_roles, snap>>

assign_roles_answered(response) ==
        LET done == CallAndCheck("BAPI_USER_ACTGROUPS_ASSIGN",
                                 {"self", "roles_builder", "rfc_call_params", "resp"},
                                 UserRoleAssignmentBuilder_build_rfc_params, response)
        IN  /\ calls' = done.calls
            /\ IF done.exc # "ok" THEN Raised("assign_roles", response, done.exc)
               ELSE Returned("assign_roles", response, None)
            /\ UNCHANGED <<roles_builder, profiles_builder, given_roles>>
            /\ UNCHANGED <<user_builder, heap, day, given, snap>>

assign_profiles_answered(response) ==
        LET done == CallAndCheck("BAPI_USER_PROFILES_ASSIGN",
                                 {"self", "profiles_builder", "rfc_call_params", "resp"},
                                 UserProfileAssignmentBuilder_build_rfc_params, response)
        IN  /\ calls' = done.calls
            /\ IF done.exc # "ok" THEN Raised("assign_profiles", response, done.exc)
               ELSE Returned("assign_profiles", response, None)
            /\ UNCHANGED <<roles_builder, profiles_builder, given_roles>>
            /\ UNCHANGED <<user_builder, heap, day, given, snap>>

create_user ==
    \/ \E response \in ListResponses : create_user_answered(response)
    \/ \E response \in RowResponses : create_user_answered(response)

assign_roles ==
    \/ \E response \in ListResponses : assign_roles_answered(response)
    \/ \E response \in RowResponses : assign_roles_answered(response)

assign_profiles ==
    \/ \E response \in ListResponses : assign_profiles_answered(response)
    \/ \E response \in RowResponses : assign_profiles_answered(response)

---------------------------------------------------------------------------
(* The clock *)

Tick ==
    /\ day < MaxDay
    /\ day' = day + 1
    /\ op' = "tick" /\ arg' = None /\ exc' = "ok" /\ ret' = None
    /\ UNCHANGED <<user_builder, heap, roles_builder, profiles_builder, calls,
                   given, given_roles, snap, ncalls>>

---------------------------------------------------------------------------
(* Initial state: freshly constructed builders, each assignment builder    *)
(* bound to some user, nothing called yet                                  *)

GivenKeys == {"USERNAME", "FIRSTNAME", "LASTNAME", "E_MAIL", "BAPIPWD", "USERALIAS",
              "USTYP", "GLTGV", "GLTGB"}

Init ==
    /\ user_builder = UserBuilder_init
    /\ heap = [r \in UserBuilderRefs |-> EmptyDict]
    /\ \E user \in BoundUsers : roles_builder = UserRoleAssignmentBuilder_init(user)
    /\ \E user \in BoundUsers : profiles_builder = UserProfileAssignmentBuilder_init(user)
    /\ day = 0
    /\ op = "init"
    /\ arg = None
    /\ exc = "ok"
    /\ ret = None
    /\ calls = <<>>
    /\ given = [k \in GivenKeys |-> None]
    /\ given_roles = <<>>
    /\ snap = [built |-> FALSE, bag |-> EmptyDict, heap |-> EmptyDict]
    /\ ncalls = 0

NextBuilder ==
    \/ set_username
    \/ set_first_name
    \/ set_last_name
    \/ set_email_address
    \/ set_password
    \/ set_alias
    \/ set_type
    \/ set_valid_from
    \/ set_valid_to
    \/ build_rfc_params
    \/ Tick

SpecBuilder == Init /\ [][NextBuilder]_vars

\* the assignment builders and the Manager operations that consume them
NextAssign ==
    \/ add_roles
    \/ roles_build_rfc_params
    \/ add_profiles
    \/ profiles_build_rfc_params
    \/ assign_roles
    \/ assign_profiles
    \/ Tick

SpecAssign == Init /\ [][NextAssign]_vars

\* Manager.create_user on a builder
NextManager ==
    \/ set_username
    \/ set_first_name
    \/ set_type
    \/ create_user
    \/ Tick

SpecManager == Init /\ [][NextManager]_vars

\* BAPIError.raise_for_error on every RETURN value
NextBapi == call_raise_for_error

SpecBapi == Init /\ [][NextBapi]_vars

---------------------------------------------------------------------------
(* Vocabulary of the properties *)

\* the rows of a RETURN value, a lone row counting as a table of one
RowsOf(bapiret) == IF bapiret.is_list THEN bapiret.value ELSE <<bapiret.value>>

HasErrorRow(bapiret) == \E i \in 1..Len(RowsOf(bapiret)) : RowsOf(bapiret)[i].TYPE = "E"

SameResponse(r1, r2) ==
    /\ r1.RETURN.is_list = r2.RETURN.is_list
    /\ r1.RETURN.value = r2.RETURN.value

\* the calendar, written out: the YYYYMMDD string of each day of the clock
TodayString ==
    CASE day = 0 -> "20261230"
      [] day = 1 -> "20261231"
      [] day = 2 -> "20270101"
      [] day = 3 -> "20270102"
      [] day = 4 -> "20270103"

FarFuture == "20991231"

\* the keys of `given` that were handed a value
GivenAmong(keys) == {k \in keys : given[k] # None}

\* the block a bag must hold for the keys given: exactly those keys, with the last values
GivenBlock(keys) == [k \in GivenAmong(keys) |-> given[k]]

\* key is in the bag exactly when one of `keys` was given, and then names GivenBlock(keys)
BlockAsGiven(bag, key, keys) ==
    /\ (key \in DOMAIN bag) <=> (GivenAmong(keys) # {})
    /\ (key \in DOMAIN bag) => (heap[bag[key]] = GivenBlock(keys))

\* exceptions that report a wrong argument or a builder in an invalid state
UsageFailures == {"ValueError", "KeyError", "TypeError"}

---------------------------------------------------------------------------
(* Properties *)

\* C1: create_user on a builder with a username set, answered with a RETURN
\* that has no row of TYPE "E", returns that username after exactly one
\* invocation of the connection, with BAPI_USER_CREATE1.
C1_CreateUserReturnsUsername ==
    (op = "create_user" /\ given["USERNAME"] # None /\ ~HasErrorRow(arg.RETURN))
        => (exc = "ok" /\ ret = given["USERNAME"] /\ calls = <<"BAPI_USER_CREATE1">>)

\* C2: create_user on a builder with a username set, answered with a RETURN
\* that has a row of TYPE "E", raises BAPIError after exactly one invocation
\* of the connection.
C2_CreateUserRaisesBapiError ==
    (op = "create_user" /\ given["USERNAME"] # None /\ HasErrorRow(arg.RETURN))
        => (exc = "BAPIError" /\ Len(calls) = 1)

\* C3: raise_for_error returns normally when no row has TYPE "E"; otherwise it
\* raises BAPIError whose message is the "TYPE MESSAGE" lines of all rows in
\* order, and which carries all the rows and the raw response.
C3_RaiseForError ==
    op = "raise_for_error" =>
        IF HasErrorRow(arg.bapiret)
        THEN /\ exc = "BAPIError"
             /\ ret.message = JoinRows(RowsOf(arg.bapiret))
             /\ ret.bapirettab = RowsOf(arg.bapiret)
             /\ SameResponse(ret.response, arg.response)
        ELSE exc = "ok"

\* C4: assign_roles (assign_profiles) on a builder whose role (profile) list is
\* empty makes no remote call and completes without raising.
C4_NothingToDoIsNoCall ==
    (\/ op = "assign_roles" /\ roles_builder._roles = <<>>
     \/ op = "assign_profiles" /\ profiles_builder._profiles = <<>>)
        => (exc = "ok" /\ calls = <<>>)

\* C5: each of set_username, set_first_name, set_last_name, set_email_address,
\* set_password and set_alias succeeds and returns the builder, and the built
\* bag holds USERNAME, ADDRESS, PASSWORD and ALIAS exactly when a setter for it
\* was called, with the last values given.
C5_SettersSucceedAndBuildAsGiven ==
    /\ op \in {"set_username", "set_first_name", "set_last_name", "set_email_address",
               "set_password", "set_alias"}
           => (exc = "ok" /\ ret = Self)
    /\ op = "build_rfc_params" =>
           /\ ("USERNAME" \in DOMAIN ret) <=> (given["USERNAME"] # None)
           /\ ("USERNAME" \in DOMAIN ret) => (ret["USERNAME"] = given["USERNAME"])
           /\ BlockAsGiven(ret, "ADDRESS", {"FIRSTNAME", "LASTNAME", "E_MAIL"})
           /\ BlockAsGiven(ret, "PASSWORD", {"BAPIPWD"})
           /\ BlockAsGiven(ret, "ALIAS", {"USERALIAS"})

\* C6: every built bag holds LOGONDATA, whose GLTGV is the value given to
\* set_valid_from if there was one and today's date otherwise, whose GLTGB is
\* the value given to set_valid_to if there was one and "20991231" otherwise,
\* and which holds USTYP only if set_type was called; with nothing given the
\* bag is only LOGONDATA = {GLTGV: today, GLTGB: "20991231"}.
C6_LogondataDefaults ==
    op = "build_rfc_params" =>
        /\ "LOGONDATA" \in DOMAIN ret
        /\ LET logondata == heap[ret["LOGONDATA"]]
           IN  /\ DOMAIN logondata = {"GLTGV", "GLTGB"} \cup GivenAmong({"USTYP"})
               /\ logondata["GLTGV"] =
                      (IF given["GLTGV"] # None THEN given["GLTGV"] ELSE TodayString)
               /\ logondata["GLTGB"] =
                      (IF given["GLTGB"] # None THEN given["GLTGB"] ELSE FarFuture)
        /\ (GivenAmong(GivenKeys) = {}) => (DOMAIN ret = {"LOGONDATA"})

\* C7: the role builder's build depends only on the last list given to
\* add_roles: None when that list is empty or none was given, and otherwise
\* USERNAME = the bound user and ACTIVITYGROUPS = one row
\* {AGR_NAME, FROM_DAT: today, TO_DAT: "20991231"} per role, in the given order.
C7_RolesBuildFromLastList ==
    op = "roles.build_rfc_params" =>
        /\ exc = "ok"
        /\ ret = IF given_roles = <<>> THEN NoParams
                 ELSE [USERNAME |-> roles_builder._user,
                       ACTIVITYGROUPS |->
                           [i \in 1..Len(given_roles) |->
                               [AGR_NAME |-> given_roles[i],
                                FROM_DAT |-> TodayString,
                                TO_DAT |-> FarFuture]]]

\* C7 witness: a build of two different roles, on a later day than the first,
\* after at least two earlier calls.
C7_Witness ==
    /\ op = "roles.build_rfc_params"
    /\ ncalls >= 3
    /\ day >= 1
    /\ Len(given_roles) = 2
    /\ given_roles[1] # given_roles[2]
    /\ ret["ACTIVITYGROUPS"][2]["AGR_NAME"] = given_roles[2]

\* C8: add_profiles succeeds, returns the builder and makes its own argument
\* the builder's profile list; build is then None for the empty list and
\* otherwise USERNAME = the bound user and PROFILES = one row {BAPIPROF} per
\* name, in the given order.
C8_AddProfilesStoresArgument ==
    op = "add_profiles" =>
        /\ exc = "ok"
        /\ ret = "@profiles_builder"
        /\ profiles_builder._profiles = arg
        /\ UserProfileAssignmentBuilder_build_rfc_params =
               IF arg = <<>> THEN NoParams
               ELSE [USERNAME |-> profiles_builder._user,
                     PROFILES |-> [i \in 1..Len(arg) |-> [BAPIPROF |-> arg[i]]]]

\* C9: create_user on a builder whose username was never set fails with a
\* usage failure, whatever the connection would answer.
C9_CreateUserWithoutUsername ==
    (op = "create_user" /\ given["USERNAME"] = None) => exc \in UsageFailures

\* C10: the dicts of a built bag stay as they were when build returned it.
C10_BuiltBagNeverMutated ==
    snap.built => \A r \in DOMAIN snap.heap : heap[r] = snap.heap[r]

====
